---- MODULE Spec2Model ----
(***************************************************************************)
(* Universal Converter (src/unitconversion.py): the cached exchange-rate   *)
(* retrieval get_rates() and the currency converter convert_currency().    *)
(*                                                                         *)
(* Numbers that the program holds as floats are kept in hundredths         *)
(* (1.00 is 100, 0.92 is 92); time is in seconds.                          *)
(***************************************************************************)
EXTENDS Integers, Sequences, FiniteSets, TLC

(***************************************************************************)
(* Bounds of the exploration.                                              *)
(***************************************************************************)
MaxNow == 5400

(***************************************************************************)
(* Program constants.                                                      *)
(***************************************************************************)
TTL == 3600

LIVE_SOURCE == "Live rates from exchangerate.host"

FALLBACK_SOURCE == "Fallback demo rates (offline, relative to USD)"

(***************************************************************************)
(* JSON values as Python holds them after resp.json().                     *)
(*   scalars : [k, n, s]   k in float (n in hundredths), int, str, null,   *)
(*             list (an unhashable value), missing (key not in the object) *)
(*   rates   : [k, m, l, s] k in obj (m: key -> scalar), list (l), str (s),*)
(*             null, missing                                               *)
(***************************************************************************)
Float(n) == [k |-> "float", n |-> n, s |-> ""]

Int_(n) == [k |-> "int", n |-> n, s |-> ""]

Str(s) == [k |-> "str", n |-> 0, s |-> s]

Null == [k |-> "null", n |-> 0, s |-> ""]

ListScalar == [k |-> "list", n |-> 0, s |-> ""]

Missing == [k |-> "missing", n |-> 0, s |-> ""]

EmptyMap == [x \in {} |-> Null]

Obj(m) == [k |-> "obj", m |-> m, l |-> <<>>, s |-> ""]

ListV(l) == [k |-> "list", m |-> EmptyMap, l |-> l, s |-> ""]

StrV(s) == [k |-> "str", m |-> EmptyMap, l |-> <<>>, s |-> s]

NullV == [k |-> "null", m |-> EmptyMap, l |-> <<>>, s |-> ""]

MissingV == [k |-> "missing", m |-> EmptyMap, l |-> <<>>, s |-> ""]

\* a dict literal of one or two entries
Map1(k1, v1) == [x \in {k1} |-> v1]

Map2(k1, v1, k2, v2) == [x \in {k1, k2} |-> IF x = k1 THEN v1 ELSE v2]

(***************************************************************************)
(* Python semantics used by get_rates: hashing, `in`, item assignment.     *)
(***************************************************************************)
Hashable(b) == b.k # "list"

\* a in b for the strings of the model (substring test)
Substr(a, b) == \/ a = b
                \/ a = ""
                \/ b = "EURUSD" /\ a \in {"EUR", "USD"}

\* `b in r`: "yes", "no" or the exception the operator raises
In(b, r) ==
    CASE r.k = "obj"  -> IF ~Hashable(b) THEN "TypeError"
                         ELSE IF b \in DOMAIN r.m THEN "yes" ELSE "no"
      [] r.k = "list" -> IF \E i \in 1..Len(r.l) : r.l[i] = b THEN "yes" ELSE "no"
      [] r.k = "str"  -> IF b.k # "str" THEN "TypeError"
                         ELSE IF Substr(b.s, r.s) THEN "yes" ELSE "no"
      [] OTHER        -> "TypeError"

\* `r[b] = v`: the new container, or the exception
SetItem(r, b, v) ==
    CASE r.k = "obj"  ->
            IF ~Hashable(b) THEN [ok |-> FALSE, exc |-> "TypeError", r |-> r]
            ELSE [ok |-> TRUE, exc |-> "",
                  r |-> Obj([x \in (DOMAIN r.m) \cup {b} |->
                                IF x = b THEN v ELSE r.m[x]])]
      [] r.k = "list" ->
            IF b.k # "int" THEN [ok |-> FALSE, exc |-> "TypeError", r |-> r]
            ELSE IF b.n >= Len(r.l) \/ b.n < 0 - Len(r.l)
                 THEN [ok |-> FALSE, exc |-> "IndexError", r |-> r]
            ELSE LET i == IF b.n >= 0 THEN b.n + 1 ELSE Len(r.l) + b.n + 1
                 IN [ok |-> TRUE, exc |-> "",
                     r |-> ListV([j \in 1..Len(r.l) |->
                                     IF j = i THEN v ELSE r.l[j]])]
      [] OTHER        -> [ok |-> FALSE, exc |-> "TypeError", r |-> r]

(***************************************************************************)
(* What the remote rate source can answer to one GET.                      *)
(*   kind: neterr, timeout (no response), http (a response with a status   *)
(*   and a body); body: notjson, nonobj (JSON that is not an object), obj  *)
(***************************************************************************)
Resp(kind, status, body, rates, base, date) ==
    [kind |-> kind, status |-> status, body |-> body,
     rates |-> rates, base |-> base, date |-> date]

NoResp == Resp("none", 0, "none", MissingV, Missing, Missing)

EUR == Str("EUR")

USD == Str("USD")

\* a 2xx response whose body is a JSON object
Ok(rates, base, date) == Resp("http", 200, "obj", rates, base, date)

GoodRates == Obj(Map2(EUR, Float(100), USD, Float(110)))

ZeroRates == Obj(Map2(EUR, Float(200), USD, Float(0)))

OddRates == Obj(Map2(EUR, Str("abc"), USD, Float(-100)))

Responses ==
    { Resp("neterr", 0, "none", MissingV, Missing, Missing),
      Resp("timeout", 0, "none", MissingV, Missing, Missing),
      Resp("http", 404, "notjson", MissingV, Missing, Missing),
      Resp("http", 503, "obj", GoodRates, EUR, Missing),
      Resp("http", 200, "notjson", MissingV, Missing, Missing),
      Resp("http", 200, "nonobj", MissingV, Missing, Missing),
      Resp("http", 304, "notjson", MissingV, Missing, Missing),
      Resp("http", 300, "obj", GoodRates, EUR, Missing) }
    \cup { Ok(GoodRates, b, Missing) :
              b \in {Missing, EUR, USD, Null, Int_(0), ListScalar} }
    \cup { Ok(GoodRates, EUR, d) : d \in {Str("2024-01-01"), Null} }
    \cup { Ok(MissingV, b, Missing) : b \in {Missing, USD} }
    \cup { Ok(ZeroRates, b, Missing) : b \in {Missing, EUR} }
    \cup { Ok(OddRates, USD, Missing),
           Ok(Obj(Map1(USD, Null)), USD, Missing),
           Ok(Obj(Map2(EUR, Null, USD, Float(0))), USD, Missing),
           Ok(Obj(EmptyMap), EUR, Missing),
           Ok(ListV(<<>>), EUR, Missing),
           Ok(ListV(<<EUR>>), EUR, Missing),
           Ok(ListV(<<EUR>>), USD, Missing),
           Ok(ListV(<<Float(500)>>), Int_(0), Missing),
           Ok(ListV(<<Float(500)>>), Int_(1), Missing),
           Ok(StrV("EURUSD"), EUR, Missing),
           Ok(StrV("EURUSD"), Str("GBP"), Missing),
           Ok(StrV("EURUSD"), Null, Missing),
           Ok(NullV, EUR, Missing) }

(***************************************************************************)
(* get_rates                                                               *)
(***************************************************************************)
\* datetime.utcnow().strftime("%Y-%m-%d %H:%M UTC"): the minute, seconds dropped
strftime(t) == [k |-> "time", n |-> t \div 60, s |-> ""]

\* the built-in table with one entry mistyped (EUR 0.29)
FALLBACK_typo ==
    [x \in {Str("USD"), Str("EUR"), Str("INR"), Str("GBP"), Str("JPY")} |->
        CASE x = Str("USD") -> Float(100)
          [] x = Str("EUR") -> Float(29)
          [] x = Str("INR") -> Float(8200)
          [] x = Str("GBP") -> Float(80)
          [] x = Str("JPY") -> Float(15000)]

FALLBACK ==
    [x \in {Str("USD"), Str("EUR"), Str("INR"), Str("GBP"), Str("JPY")} |->
        CASE x = Str("USD") -> Float(100)
          [] x = Str("EUR") -> Float(92)
          [] x = Str("INR") -> Float(8200)
          [] x = Str("GBP") -> Float(80)
          [] x = Str("JPY") -> Float(15000)]

Snapshot(rates, source, timestamp) ==
    [rates |-> rates, source |-> source, timestamp |-> timestamp]

NoSnap == Snapshot(MissingV, "", Missing)

Returned(snap) == [ok |-> TRUE, exc |-> "", snap |-> snap]

Raised(exc) == [ok |-> FALSE, exc |-> exc, snap |-> NoSnap]

\* resp.raise_for_status(): HTTPError for 4xx and 5xx
raise_for_status(status) == status >= 400 /\ status < 600

\* lines 78-79 done unconditionally: the base entry is always overwritten
EnsureBase_overwrite(rates0, base) ==
    IF In(base, rates0) = "TypeError"
    THEN [ok |-> FALSE, exc |-> "TypeError", r |-> rates0]
    ELSE SetItem(rates0, base, Float(100))

\* lines 78-79 left out: the base entry is never synthesized
EnsureBase_skip(rates0, base) ==
    IF In(base, rates0) = "TypeError"
    THEN [ok |-> FALSE, exc |-> "TypeError", r |-> rates0]
    ELSE [ok |-> TRUE, exc |-> "", r |-> rates0]

\* `if base not in rates: rates[base] = 1.0`
EnsureBase(rates0, base) ==
    LET isin == In(base, rates0)
    IN IF isin = "TypeError" THEN [ok |-> FALSE, exc |-> "TypeError", r |-> rates0]
       ELSE IF isin = "yes" THEN [ok |-> TRUE, exc |-> "", r |-> rates0]
       ELSE SetItem(rates0, base, Float(100))

\* data.get("rates", {})
RatesOf(resp) == IF resp.rates.k = "missing" THEN Obj(EmptyMap) ELSE resp.rates

\* data.get("base", "EUR")
BaseOf(resp) == IF resp.base.k = "missing" THEN Str("EUR") ELSE resp.base

\* data.get("date", <now, formatted>)
DateOf(resp, t) == IF resp.date.k = "missing" THEN strftime(t) ELSE resp.date

\* the try block: the returned snapshot or the exception raised inside it
TryBlock(resp, t) ==
    IF resp.kind = "neterr" THEN Raised("ConnectionError")
    ELSE IF resp.kind = "timeout" THEN Raised("Timeout")
    ELSE IF raise_for_status(resp.status) THEN Raised("HTTPError")
    ELSE IF resp.body = "notjson" THEN Raised("JSONDecodeError")
    ELSE IF resp.body = "nonobj" THEN Raised("AttributeError")
    ELSE
      LET e == EnsureBase(RatesOf(resp), BaseOf(resp))
      IN IF ~e.ok THEN Raised(e.exc)
         ELSE Returned(Snapshot(e.r, LIVE_SOURCE, DateOf(resp, t)))

\* `except requests.RequestException`: only the failures of the GET itself
ExceptClause_requests(exc) ==
    exc \in {"ConnectionError", "Timeout", "HTTPError", "JSONDecodeError"}

\* `except Exception`: every exception the try block can raise is one
ExceptClause(exc) ==
    exc \in {"ConnectionError", "Timeout", "HTTPError", "JSONDecodeError",
             "AttributeError", "TypeError", "IndexError"}

\* the except branch with the label of the try branch
FallbackSnapshot_mislabelled(t) == Snapshot(Obj(FALLBACK), LIVE_SOURCE, strftime(t))

\* the except branch
FallbackSnapshot(t) == Snapshot(Obj(FALLBACK), FALLBACK_SOURCE, strftime(t))

\* the undecorated function body: one GET, then the try or the except result
get_rates_body(resp, t) ==
    LET r == TryBlock(resp, t)
    IN IF r.ok THEN r
       ELSE IF ExceptClause(r.exc) THEN Returned(FallbackSnapshot(t))
       ELSE r

(***************************************************************************)
(* @st.cache_data(ttl=3600): one entry, valid while its age is below ttl   *)
(***************************************************************************)
NoEntry == [held |-> FALSE, snap |-> NoSnap, at |-> 0]

Entry(snap, t) == [held |-> TRUE, snap |-> snap, at |-> t]

\* ttl mistyped as 360
CacheValid_short(c, t) == c.held /\ t - c.at < 360

\* an entry still served at the age of exactly ttl
CacheValid_le(c, t) == c.held /\ t - c.at <= TTL

CacheValid(c, t) == c.held /\ t - c.at < TTL

\* a variant that keeps only live results in the cache
get_rates_live_only(c, resp, t) ==
    IF CacheValid(c, t)
    THEN [res |-> Returned(c.snap), cache |-> c, attempts |-> 0, seen |-> NoResp,
          conv |-> 0]
    ELSE LET r == get_rates_body(resp, t)
         IN [res |-> r,
             cache |-> IF r.ok /\ r.snap.source = LIVE_SOURCE
                       THEN Entry(r.snap, t) ELSE NoEntry,
             attempts |-> 1, seen |-> resp, conv |-> 0]

\* a variant whose body repeats the GET once when the try block raised
get_rates_retry(c, resp, t) ==
    IF CacheValid(c, t)
    THEN [res |-> Returned(c.snap), cache |-> c, attempts |-> 0, seen |-> NoResp,
          conv |-> 0]
    ELSE LET r == get_rates_body(resp, t)
         IN [res |-> r,
             cache |-> IF r.ok THEN Entry(r.snap, t) ELSE NoEntry,
             attempts |-> IF TryBlock(resp, t).ok THEN 1 ELSE 2,
             seen |-> resp, conv |-> 0]

\* one call of the decorated get_rates at time t against the remote answer resp:
\* the result, the new cache entry and the number of GETs made
get_rates(c, resp, t) ==
    IF CacheValid(c, t)
    THEN [res |-> Returned(c.snap), cache |-> c, attempts |-> 0, seen |-> NoResp,
          conv |-> 0]
    ELSE LET r == get_rates_body(resp, t)
         IN [res |-> r,
             cache |-> IF r.ok THEN Entry(r.snap, t) ELSE NoEntry,
             attempts |-> 1, seen |-> resp, conv |-> 0]

(***************************************************************************)
(* convert_currency                                                        *)
(***************************************************************************)
\* a Python number in hundredths; a value that is no number has none
IsNumber(x) == x.k \in {"float", "int"}

Hundredths(x) == IF x.k = "int" THEN 100 * x.n ELSE x.n

\* `r[key]` read
GetItem(r, key) ==
    IF r.k = "obj" /\ key \in DOMAIN r.m
    THEN [ok |-> TRUE, exc |-> "", v |-> r.m[key]]
    ELSE IF r.k = "obj" THEN [ok |-> FALSE, exc |-> "KeyError", v |-> Null]
    ELSE [ok |-> FALSE, exc |-> "TypeError", v |-> Null]

RECURSIVE Gcd(_, _)
Gcd(a, b) == IF b = 0 THEN a ELSE Gcd(b, a % b)

Abs(a) == IF a < 0 THEN 0 - a ELSE a

\* the exact quotient num/den (den # 0) as a reduced fraction with den > 0
Frac(num, den) ==
    LET g == Gcd(Abs(num), Abs(den))
        sg == IF den < 0 THEN 0 - 1 ELSE 1
    IN [num |-> sg * (num \div g), den |-> sg * (den \div g)]

NoValue == [num |-> 0, den |-> 0]

Conv(ok, exc, value, source, timestamp) ==
    [ok |-> ok, exc |-> exc, value |-> value, source |-> source,
     timestamp |-> timestamp]

\* line 113 testing from_ccy only
convert_with_from_only(snap, amount, from_ccy, to_ccy) ==
    LET inf == In(Str(from_ccy), snap.rates)
        rt  == GetItem(snap.rates, Str(to_ccy))
        rf  == GetItem(snap.rates, Str(from_ccy))
    IN IF inf = "TypeError" THEN Conv(FALSE, "TypeError", NoValue, "", Missing)
       ELSE IF inf = "no" THEN Conv(TRUE, "", NoValue, snap.source, snap.timestamp)
       ELSE IF ~rt.ok THEN Conv(FALSE, rt.exc, NoValue, "", Missing)
       ELSE IF ~rf.ok THEN Conv(FALSE, rf.exc, NoValue, "", Missing)
       ELSE IF ~IsNumber(rt.v) \/ ~IsNumber(rf.v)
            THEN Conv(FALSE, "TypeError", NoValue, "", Missing)
       ELSE IF Hundredths(rf.v) = 0
            THEN Conv(TRUE, "", NoValue, snap.source, snap.timestamp)
       ELSE Conv(TRUE, "", Frac(amount * Hundredths(rt.v), Hundredths(rf.v)),
                 snap.source, snap.timestamp)

\* line 117 with the ratio upside down: rates[from_ccy] / rates[to_ccy]
convert_with_inverted(snap, amount, from_ccy, to_ccy) ==
    LET inf == In(Str(from_ccy), snap.rates)
        int == In(Str(to_ccy), snap.rates)
        rt  == GetItem(snap.rates, Str(to_ccy))
        rf  == GetItem(snap.rates, Str(from_ccy))
    IN IF inf = "TypeError" THEN Conv(FALSE, "TypeError", NoValue, "", Missing)
       ELSE IF inf = "no" THEN Conv(TRUE, "", NoValue, snap.source, snap.timestamp)
       ELSE IF int = "TypeError" THEN Conv(FALSE, "TypeError", NoValue, "", Missing)
       ELSE IF int = "no" THEN Conv(TRUE, "", NoValue, snap.source, snap.timestamp)
       ELSE IF ~rt.ok THEN Conv(FALSE, rt.exc, NoValue, "", Missing)
       ELSE IF ~rf.ok THEN Conv(FALSE, rf.exc, NoValue, "", Missing)
       ELSE IF ~IsNumber(rt.v) \/ ~IsNumber(rf.v)
            THEN Conv(FALSE, "TypeError", NoValue, "", Missing)
       ELSE IF Hundredths(rt.v) = 0
            THEN Conv(TRUE, "", NoValue, snap.source, snap.timestamp)
       ELSE Conv(TRUE, "", Frac(amount * Hundredths(rf.v), Hundredths(rt.v)),
                 snap.source, snap.timestamp)

\* lines 113-121 on the snapshot get_rates returned: the `not in` tests, the
\* two lookups, the division (ZeroDivisionError caught) and the product
convert_with(snap, amount, from_ccy, to_ccy) ==
    LET inf == In(Str(from_ccy), snap.rates)
        int == In(Str(to_ccy), snap.rates)
        rt  == GetItem(snap.rates, Str(to_ccy))
        rf  == GetItem(snap.rates, Str(from_ccy))
    IN IF inf = "TypeError" THEN Conv(FALSE, "TypeError", NoValue, "", Missing)
       ELSE IF inf = "no" THEN Conv(TRUE, "", NoValue, snap.source, snap.timestamp)
       ELSE IF int = "TypeError" THEN Conv(FALSE, "TypeError", NoValue, "", Missing)
       ELSE IF int = "no" THEN Conv(TRUE, "", NoValue, snap.source, snap.timestamp)
       ELSE IF ~rt.ok THEN Conv(FALSE, rt.exc, NoValue, "", Missing)
       ELSE IF ~rf.ok THEN Conv(FALSE, rf.exc, NoValue, "", Missing)
       ELSE IF ~IsNumber(rt.v) \/ ~IsNumber(rf.v)
            THEN Conv(FALSE, "TypeError", NoValue, "", Missing)
       ELSE IF Hundredths(rf.v) = 0
            THEN Conv(TRUE, "", NoValue, snap.source, snap.timestamp)
       ELSE Conv(TRUE, "", Frac(amount * Hundredths(rt.v), Hundredths(rf.v)),
                 snap.source, snap.timestamp)

\* one call of convert_currency: get_rates(), then the conversion
convert_currency(c, resp, t, amount, from_ccy, to_ccy) ==
    LET g == get_rates(c, resp, t)
    IN [g EXCEPT !.conv = IF g.res.ok
                          THEN convert_with(g.res.snap, amount, from_ccy, to_ccy)
                          ELSE Conv(FALSE, g.res.exc, NoValue, "", Missing)]

(***************************************************************************)
(* The state: the clock, the reachability of the rate source, the cache    *)
(* entry of get_rates, the answer met by the call that filled the cache,   *)
(* and the outcome of the call just made (none after any other step).      *)
(***************************************************************************)
VARIABLES now, online, cache, made, out

\* the unit converters: the conversion just displayed (none before the first)
VARIABLES shown

\* the Measurement page: st.session_state and the outcome of the last script run
VARIABLES sess

\* threads inside get_rates() and the count of GETs they made
VARIABLES thr

\* the water tracker: the session's log, water_log.csv and the last script run
VARIABLES water

\* the gym logger: the session's log, gym_workouts.csv and the last script run
VARIABLES gym

vars == <<now, online, cache, made, out, shown, sess, thr, water, gym>>

\* the state of the pages other than Money
pages == <<shown, sess, thr, water, gym>>

NoResult == [ok |-> FALSE, value |-> [num |-> 0, den |-> 0],
             factor |-> [num |-> 0, den |-> 0], ops |-> 0, formula |-> "none"]

NoUnits == [op |-> "none", value |-> [num |-> 0, den |-> 1], from_u |-> "", to_u |-> "",
            res |-> NoResult, back |-> FALSE, orig |-> [num |-> 0, den |-> 1]]

\* the outcome of a run of the Measurement page: the exception that ended it
\* (none: ""), whether the selectboxes were drawn, and the table, the labels
\* and the result of the lookup at lines 450-458 when the run got there
NoRun == [exc |-> "", drawn |-> FALSE, looked |-> FALSE, category |-> "",
          m_from |-> "", m_to |-> "", res |-> NoResult]

\* st.session_state before the page was ever run: no key is set ("" and the
\* fraction 0/0 stand for an absent key)
NoSess == [meas_cat |-> "", m_val |-> [num |-> 0, den |-> 0], m_from |-> "",
           m_to |-> "", api |-> FALSE, run |-> NoRun]

\* the number of threads that call get_rates() at once
NThreads == 2

Threads == 1 .. NThreads

\* no thread has called yet: where each thread is, the snapshot it computed
\* or was handed, whether it made a GET, the holder of the compute lock of
\* the cache key (0: free) and the number of GETs made
NoThr == [pc |-> [i \in Threads |-> "idle"], val |-> [i \in Threads |-> NoSnap],
          got |-> [i \in Threads |-> FALSE], lock |-> 0, gets |-> 0]

\* no water_log.csv / gym_workouts.csv
NoFile == [exists |-> FALSE, ok |-> FALSE, rows |-> <<>>]

\* no run of the water tracker yet; besides the session and the file the
\* record keeps what the properties speak of: acc, the sum added today since
\* the last Reset Today or Clear All, cleared, whether Clear All was ever
\* pressed, and added, the rows added since and not reset
NoWaterRun == [op |-> "none", exc |-> "", amount |-> 0, before |-> <<>>,
               total |-> 0 - 1, weekly |-> <<>>]

\* the water tracker before its first run: nothing in st.session_state, no
\* file, nothing added today
NoWater == [loaded |-> FALSE, log |-> <<>>, typed |-> FALSE, file |-> NoFile,
            acc |-> 0, cleared |-> FALSE, added |-> <<>>, run |-> NoWaterRun]

\* no run of the gym logger yet
NoStats == [volume |-> 0, sets |-> 0, reps |-> 0, heaviest |-> 0 - 1]

\* no run of the gym logger yet.  A run records the button pressed, the log
\* and the file it found, the form, the filters chosen, and what it drew:
\* the table, the chart and the last-7-days rows as sets of row numbers of
\* the log, with the filtered total and the four stats
NoGymRun == [op |-> "none", before |-> <<>>, file_before |-> NoFile,
             form |-> <<>>, valid |-> FALSE,
             exercise_filter |-> {}, start_date |-> 0, end_date |-> 0,
             table |-> {}, chart |-> {}, total_volume_filtered |-> 0,
             week |-> {}, stats |-> NoStats]

\* the gym logger before its first run; adds counts the presses of Add
\* Workout that added a row
NoGym == [loaded |-> FALSE, log |-> <<>>, file |-> NoFile, adds |-> 0,
          run |-> NoGymRun]

NoArgs == [amount |-> 0, from_ccy |-> "", to_ccy |-> ""]

NoConv == Conv(FALSE, "", NoValue, "", Missing)

\* the age of the entry a call finds in the cache, -1 when it finds none
AgeOf(c, t) == IF c.held THEN t - c.at ELSE 0 - 1

NoOut == [op |-> "none", res |-> Raised(""), attempts |-> 0, age |-> 0 - 1,
          args |-> NoArgs, conv |-> NoConv]

Init ==
    /\ now = 0
    /\ online = TRUE
    /\ cache = NoEntry
    /\ made = NoResp
    /\ out = NoOut
    /\ shown = NoUnits
    /\ sess = NoSess
    /\ thr = NoThr
    /\ water = NoWater
    /\ gym = NoGym

\* what a GET can meet: nothing but network failures while the source is
\* unreachable; a call served from the cache makes no GET and meets nothing
Answers == IF CacheValid(cache, now) THEN {NoResp}
           ELSE IF online THEN Responses
           ELSE {r \in Responses : r.kind \in {"neterr", "timeout"}}

\* the clock advances
Steps == {1800, 3599, 3600}

Tick ==
    /\ \E d \in Steps : now + d <= MaxNow /\ now' = now + d
    /\ out' = NoOut
    /\ UNCHANGED <<online, cache, made>>
    /\ UNCHANGED pages

\* the remote source becomes unreachable or reachable again
Network ==
    /\ online' = ~online
    /\ out' = NoOut
    /\ UNCHANGED <<now, cache, made>>
    /\ UNCHANGED pages

\* a caller calls get_rates()
GetRates ==
    \E resp \in Answers :
        LET g == get_rates(cache, resp, now)
        IN /\ cache' = g.cache
           /\ made' = IF g.attempts = 1 THEN g.seen ELSE made
           /\ out' = [op |-> "get_rates", res |-> g.res, attempts |-> g.attempts,
                      age |-> AgeOf(cache, now), args |-> NoArgs, conv |-> NoConv]
           /\ UNCHANGED <<now, online>>
           /\ UNCHANGED pages

Args(amount, from_ccy, to_ccy) ==
    [amount |-> amount, from_ccy |-> from_ccy, to_ccy |-> to_ccy]

\* the calls of convert_currency explored (amounts in hundredths)
Calls == { Args(10000, "USD", "EUR"), Args(10000, "EUR", "USD"),
           Args(0 - 5000, "EUR", "USD"), Args(10000, "EUR", "EUR"),
           Args(10000, "GBP", "EUR"), Args(10000, "EUR", "GBP"),
           Args(10000, "USD", "INR"), Args(0, "CHF", "CHF") }

\* a caller calls convert_currency(amount, from_ccy, to_ccy)
ConvertCurrency ==
    \E resp \in Answers, a \in Calls :
        LET g == convert_currency(cache, resp, now, a.amount, a.from_ccy, a.to_ccy)
        IN /\ cache' = g.cache
           /\ made' = IF g.attempts = 1 THEN g.seen ELSE made
           /\ out' = [op |-> "convert_currency", res |-> g.res,
                      attempts |-> g.attempts, age |-> AgeOf(cache, now),
                      args |-> a, conv |-> g.conv]
           /\ UNCHANGED <<now, online>>
           /\ UNCHANGED pages

Next == Tick \/ Network \/ GetRates \/ ConvertCurrency

Spec == Init /\ [][Next]_vars

(***************************************************************************)
(* Vocabulary of the properties.                                           *)
(***************************************************************************)
\* a call has just been made
Called == out.op # "none"

\* the call just made did a GET, which met the answer `made`
Fetched == Called /\ out.attempts = 1

\* the GET got no response, an HTTP error status, or a body that is not JSON
HardFailure(resp) ==
    \/ resp.kind \in {"neterr", "timeout"}
    \/ resp.kind = "http" /\ resp.status >= 400
    \/ resp.kind = "http" /\ resp.body = "notjson"

\* the table of the specification, section 6
BuiltInTable ==
    [x \in {Str("USD"), Str("EUR"), Str("INR"), Str("GBP"), Str("JPY")} |->
        CASE x = Str("USD") -> Float(100)
          [] x = Str("EUR") -> Float(92)
          [] x = Str("INR") -> Float(8200)
          [] x = Str("GBP") -> Float(80)
          [] x = Str("JPY") -> Float(15000)]

\* C1: a call that finds a snapshot younger than 3600 s returns exactly that
\* snapshot, makes no GET and leaves the cache as it is; a GET is made only by
\* a call that finds no snapshot or one of age 3600 s or more.
C1_CacheHit ==
    [][ out'.op # "none" =>
          /\ (cache.held /\ now - cache.at < 3600) =>
                /\ out'.attempts = 0
                /\ out'.res = Returned(cache.snap)
                /\ cache' = cache
          /\ out'.attempts = 1 => (~cache.held \/ now - cache.at >= 3600) ]_vars

C1_Witness ==
    /\ out.op = "get_rates" /\ out.attempts = 0 /\ out.age = 3599
    /\ out.res.ok /\ out.res.snap = cache.snap
    /\ cache.snap.source = LIVE_SOURCE

\* C2: a call that finds no snapshot, or one of age 3600 s or more, makes a GET,
\* and the snapshot it returns is the one held from then on.
C2_Expiry ==
    [][ (out'.op # "none" /\ (~cache.held \/ now - cache.at >= 3600)) =>
          /\ out'.attempts = 1
          /\ made' \in Responses
          /\ out'.res.ok
          /\ cache' = [held |-> TRUE, snap |-> out'.res.snap, at |-> now] ]_vars

C2_Witness ==
    /\ out.op = "get_rates" /\ out.attempts = 1 /\ out.age = 3600
    /\ cache.held /\ cache.at = now /\ cache.snap = out.res.snap

\* C3: every call of get_rates returns a snapshot (rates, one of the two source
\* labels, a timestamp) and raises nothing, whatever the GET met.
C3_NeverFails ==
    Called =>
        /\ out.res.ok
        /\ out.res.exc = ""
        /\ out.res.snap.source \in {LIVE_SOURCE, FALLBACK_SOURCE}
        /\ out.res.snap.rates.k \in {"obj", "list", "str"}
        /\ out.res.snap.timestamp.k # "missing"

C3_Witness ==
    /\ out.op = "get_rates" /\ out.attempts = 1
    /\ made.kind = "http" /\ made.status = 200 /\ made.body = "nonobj"
    /\ out.res.ok

\* C4: when the GET fails (no response, HTTP error status, body not JSON) the
\* call returns the fallback label, and whenever a call returns the fallback
\* label after a GET the snapshot is exactly the built-in table with the
\* current time, formatted, as timestamp.
C4_FallbackExact ==
    Fetched =>
        /\ HardFailure(made) => out.res.snap.source = FALLBACK_SOURCE
        /\ out.res.snap.source = FALLBACK_SOURCE =>
              /\ out.res.snap.rates = Obj(BuiltInTable)
              /\ out.res.snap.timestamp = [k |-> "time", n |-> now \div 60, s |-> ""]

\* the rates were parsed and the failure came after: nothing of them is returned
C4_Witness ==
    /\ Fetched /\ now > 0
    /\ made = Ok(GoodRates, ListScalar, Missing)
    /\ out.res.snap.source = FALLBACK_SOURCE
    /\ out.res.snap.rates = Obj(BuiltInTable)

\* C5: the fallback snapshot returned by a call whose GET failed is held from
\* then on, and a held fallback snapshot younger than 3600 s is returned as it
\* is by every call, without a GET, also while the remote source is reachable.
C5_FallbackCached ==
    [][ /\ (/\ out'.op # "none" /\ out'.attempts = 1
            /\ out'.res.snap.source = FALLBACK_SOURCE) =>
              /\ cache'.held
              /\ cache'.snap = out'.res.snap
              /\ cache'.at = now
        /\ (/\ out'.op # "none"
            /\ cache.held /\ cache.snap.source = FALLBACK_SOURCE
            /\ now - cache.at < 3600) =>
              /\ out'.attempts = 0
              /\ out'.res = Returned(cache.snap)
              /\ cache' = cache ]_vars

C5_Witness ==
    /\ Called /\ out.attempts = 0 /\ out.age > 0
    /\ out.res.snap.source = FALLBACK_SOURCE
    /\ made.kind \in {"neterr", "timeout"}
    /\ online

\* the response has the shape {rates: mapping, base: code}
ShapeOk(resp) ==
    /\ resp.body = "obj"
    /\ resp.rates.k = "obj"
    /\ resp.base.k = "str"

\* C6: a response with a status outside 2xx, or with a JSON body that has not
\* the shape {rates: mapping, base: code, ...}, gives the fallback snapshot.
C6_ShapeMismatchFails ==
    (Fetched /\ made.kind = "http"
       /\ (made.status < 200 \/ made.status >= 300 \/ ~ShapeOk(made))) =>
        out.res.snap.source = FALLBACK_SOURCE

\* C7: the held snapshot is the whole result of the one call that stored it:
\* a hard failure of its GET gives the fallback label, the fallback label goes
\* with the built-in table and the time of that call, the live label goes with
\* an answered GET, the rates of that answer and its date (or the time of that
\* call); the cache changes only by a call that did a GET and stores what that
\* call returns.
C7_Provenance ==
    /\ [](cache.held =>
            /\ cache.snap.source \in {LIVE_SOURCE, FALLBACK_SOURCE}
            /\ HardFailure(made) => cache.snap.source = FALLBACK_SOURCE
            /\ cache.snap.source = FALLBACK_SOURCE =>
                  /\ cache.snap.rates = Obj(BuiltInTable)
                  /\ cache.snap.timestamp =
                        [k |-> "time", n |-> cache.at \div 60, s |-> ""]
            /\ cache.snap.source = LIVE_SOURCE =>
                  /\ made.kind = "http" /\ made.body = "obj"
                  /\ cache.snap.rates # Obj(BuiltInTable)
                  /\ made.rates.k \in {"str", "list"} =>
                        cache.snap.rates.k = made.rates.k
                  /\ made.rates.k = "obj" =>
                        /\ cache.snap.rates.k = "obj"
                        /\ \A x \in DOMAIN made.rates.m :
                              /\ x \in DOMAIN cache.snap.rates.m
                              /\ cache.snap.rates.m[x] = made.rates.m[x]
                  /\ cache.snap.timestamp =
                        IF made.date.k = "missing"
                        THEN [k |-> "time", n |-> cache.at \div 60, s |-> ""]
                        ELSE made.date)
    /\ [][ cache' # cache =>
             /\ out'.attempts = 1
             /\ cache' = [held |-> TRUE, snap |-> out'.res.snap, at |-> now] ]_vars

\* a live snapshot replaced a fallback one after the window
C7_Witness ==
    /\ cache.held /\ cache.at = 3600 /\ out.age = 3600
    /\ cache.snap.source = LIVE_SOURCE
    /\ made = Ok(GoodRates, EUR, Str("2024-01-01"))
    /\ cache.snap.timestamp = Str("2024-01-01")

\* the base code of the call that stored the held snapshot
HeldBase == IF made.base.k = "missing" THEN Str("EUR") ELSE made.base

\* the rates of the answer met by that call
HeldUpstream == IF made.rates.k = "missing" THEN Obj(EmptyMap) ELSE made.rates

\* C8 as stated: in every returned snapshot whose rates are a mapping the base
\* currency (USD for the fallback) has an entry, and that entry is 1.0.
C8_BaseIsOne_Original ==
    (Called /\ out.res.ok /\ out.res.snap.rates.k = "obj") =>
        LET b == IF out.res.snap.source = FALLBACK_SOURCE THEN Str("USD") ELSE HeldBase
        IN /\ b \in DOMAIN out.res.snap.rates.m
           /\ out.res.snap.rates.m[b] = Float(100)

\* C8 amended: the fallback snapshot has USD at 1.0; a live snapshot whose
\* upstream rates do not contain the base code has 1.0 stored under the base
\* code; a live snapshot whose upstream rates contain the base code has the
\* upstream rates unchanged, so the base entry is what upstream sent.
C8_BaseEntry ==
    (Called /\ out.res.ok) =>
        LET r == out.res.snap.rates
        IN /\ out.res.snap.source = FALLBACK_SOURCE =>
                 /\ Str("USD") \in DOMAIN r.m
                 /\ r.m[Str("USD")] = Float(100)
           /\ (out.res.snap.source = LIVE_SOURCE /\ In(HeldBase, HeldUpstream) = "no") =>
                 \/ /\ r.k = "obj"
                    /\ HeldBase \in DOMAIN r.m
                    /\ r.m[HeldBase] = Float(100)
                 \/ /\ r.k = "list" /\ HeldBase.k = "int"
                    /\ r.l[HeldBase.n + 1] = Float(100)
           /\ (out.res.snap.source = LIVE_SOURCE /\ In(HeldBase, HeldUpstream) = "yes") =>
                 r = HeldUpstream

\* upstream lists the base at 2.0 and the live snapshot keeps it
C8_Witness ==
    /\ Fetched /\ made = Ok(ZeroRates, EUR, Missing)
    /\ out.res.snap.source = LIVE_SOURCE
    /\ out.res.snap.rates.m[EUR] = Float(200)

\* C9 as stated: every rate of every returned snapshot is a positive number.
C9_RatesPositive_Original ==
    (Called /\ out.res.ok /\ out.res.snap.rates.k = "obj") =>
        \A x \in DOMAIN out.res.snap.rates.m :
            /\ out.res.snap.rates.m[x].k \in {"float", "int"}
            /\ out.res.snap.rates.m[x].n > 0

\* C9 amended: every rate of the fallback snapshot is a positive number; a live
\* snapshot built from an upstream mapping holds every upstream entry exactly as
\* sent (zero, negative, null and string entries included) and nothing else but
\* a base entry of 1.0 when upstream did not list the base.
C9_RatesAsSent ==
    (Called /\ out.res.ok) =>
        LET r == out.res.snap.rates
        IN /\ out.res.snap.source = FALLBACK_SOURCE =>
                 \A x \in DOMAIN r.m : r.m[x].k = "float" /\ r.m[x].n > 0
           /\ (out.res.snap.source = LIVE_SOURCE /\ HeldUpstream.k = "obj") =>
                 /\ r.k = "obj"
                 /\ DOMAIN r.m = (DOMAIN HeldUpstream.m) \cup {HeldBase}
                 /\ \A x \in DOMAIN HeldUpstream.m : r.m[x] = HeldUpstream.m[x]
                 /\ HeldBase \notin DOMAIN HeldUpstream.m => r.m[HeldBase] = Float(100)

\* a live snapshot with a zero rate is held and handed to convert_currency
C9_Witness ==
    /\ out.op = "convert_currency" /\ out.attempts = 0
    /\ cache.snap.source = LIVE_SOURCE
    /\ out.res.snap = cache.snap
    /\ cache.snap.rates.k = "obj"
    /\ USD \in DOMAIN cache.snap.rates.m
    /\ cache.snap.rates.m[USD] = Float(0)

\* C10: convert_currency with from_ccy or to_ccy not in the rates of the
\* snapshot returns no value, the source label and the timestamp of that
\* snapshot, and raises nothing.
C10_AbsentCurrency ==
    (/\ out.op = "convert_currency" /\ out.res.ok
     /\ \/ In(Str(out.args.from_ccy), out.res.snap.rates) = "no"
        \/ In(Str(out.args.to_ccy), out.res.snap.rates) = "no") =>
        /\ out.conv.ok
        /\ out.conv.exc = ""
        /\ out.conv.value = NoValue
        /\ out.conv.source = out.res.snap.source
        /\ out.conv.source \in {LIVE_SOURCE, FALLBACK_SOURCE}
        /\ out.conv.timestamp = out.res.snap.timestamp

\* the source currency is in the live snapshot, the target is not
C10_Witness ==
    /\ out.op = "convert_currency"
    /\ out.args.from_ccy = "EUR" /\ out.args.to_ccy = "GBP"
    /\ out.res.snap.source = LIVE_SOURCE
    /\ out.res.snap.rates = Obj(Map2(EUR, Float(100), USD, Float(110)))
    /\ out.conv.ok /\ out.conv.value = NoValue
    /\ out.conv.source = LIVE_SOURCE

\* the rate of a code in the snapshot returned to convert_currency
RateOf(code) == out.res.snap.rates.m[Str(code)]

\* both codes of the call just made have an entry in the returned snapshot
BothListed ==
    /\ out.op = "convert_currency" /\ out.res.ok
    /\ out.res.snap.rates.k = "obj"
    /\ Str(out.args.from_ccy) \in DOMAIN out.res.snap.rates.m
    /\ Str(out.args.to_ccy) \in DOMAIN out.res.snap.rates.m

\* C11: when both codes are in the snapshot and the rate of from_ccy is exactly
\* zero, convert_currency returns no value, with the source and the timestamp
\* of the snapshot, and raises nothing.
C11_ZeroRate ==
    (/\ BothListed
     /\ RateOf(out.args.from_ccy).k \in {"float", "int"}
     /\ RateOf(out.args.from_ccy).n = 0) =>
        /\ out.conv.ok
        /\ out.conv.value = NoValue
        /\ out.conv.source = out.res.snap.source
        /\ out.conv.timestamp = out.res.snap.timestamp

\* C12: convert_currency never raises: for every snapshot get_rates returns and
\* every amount and pair of codes it returns a (value or none, source,
\* timestamp) triple.
C12_NoException ==
    out.op = "convert_currency" =>
        /\ out.conv.ok
        /\ out.conv.exc = ""
        /\ out.conv.source \in {LIVE_SOURCE, FALLBACK_SOURCE}

\* C13: when both codes are in the snapshot with numeric rates and the rate of
\* from_ccy is not zero, the value returned is amount * rate[to] / rate[from]
\* of that snapshot (as a fraction num/den: num * rate[from] = amount *
\* rate[to] * den), negative amounts included; 100 USD to EUR on the fallback
\* snapshot is 92.0 with the fallback label.
C13_Value ==
    /\ (/\ BothListed
        /\ RateOf(out.args.from_ccy).k \in {"float", "int"}
        /\ RateOf(out.args.to_ccy).k \in {"float", "int"}
        /\ RateOf(out.args.from_ccy).n # 0) =>
          /\ out.conv.ok
          /\ out.conv.value.den > 0
          /\ out.conv.value.num * Hundredths(RateOf(out.args.from_ccy))
                = out.args.amount * Hundredths(RateOf(out.args.to_ccy))
                    * out.conv.value.den
          /\ out.conv.source = out.res.snap.source
          /\ out.conv.timestamp = out.res.snap.timestamp
    /\ (/\ out.op = "convert_currency"
        /\ out.attempts = 1 /\ HardFailure(made)
        /\ out.args = [amount |-> 10000, from_ccy |-> "USD", to_ccy |-> "EUR"]) =>
          /\ out.conv.value = [num |-> 9200, den |-> 1]
          /\ out.conv.source = FALLBACK_SOURCE

\* a negative amount converted on a live snapshot: -50 EUR is -55 USD
C13_Witness ==
    /\ out.op = "convert_currency"
    /\ out.args = [amount |-> 0 - 5000, from_ccy |-> "EUR", to_ccy |-> "USD"]
    /\ out.res.snap.source = LIVE_SOURCE
    /\ out.res.snap.rates.m = Map2(EUR, Float(100), USD, Float(110))
    /\ out.conv.ok
    /\ out.conv.value = [num |-> 0 - 5500, den |-> 1]

\* C19: a call makes at most one GET, and when that GET fails the same call
\* returns the fallback snapshot.
C19_NoRetry ==
    Called =>
        /\ out.attempts \in {0, 1}
        /\ (out.attempts = 1 /\ HardFailure(made)) =>
              /\ out.res.ok
              /\ out.res.snap.source = FALLBACK_SOURCE

C19_Witness ==
    /\ out.op = "get_rates" /\ out.attempts = 1
    /\ made.kind = "timeout"
    /\ out.res.snap.source = FALLBACK_SOURCE

(***************************************************************************)
(* The unit converters.  Python floats are held as exact reduced fractions *)
(* num/den; `ops` counts the floating-point operations applied to the      *)
(* value, each of which may round in the program.                          *)
(***************************************************************************)
Rat(n) == [num |-> n, den |-> 1]

\* a * b, cancelling across before multiplying
RMul(a, b) ==
    LET g1 == Gcd(Abs(a.num), b.den)
        g2 == Gcd(Abs(b.num), a.den)
    IN [num |-> (a.num \div g1) * (b.num \div g2),
        den |-> (a.den \div g2) * (b.den \div g1)]

\* a / b for b # 0
RDiv(a, b) ==
    RMul(a, [num |-> IF b.num < 0 THEN 0 - b.den ELSE b.den, den |-> Abs(b.num)])

RAdd(a, b) == Frac(a.num * b.den + b.num * a.den, a.den * b.den)

RSub(a, b) == Frac(a.num * b.den - b.num * a.den, a.den * b.den)

\* weight units in kilograms; 0.028349523125 is 45359237/1600000000
WEIGHT_TO_KG ==
    ("g (gram)" :> Frac(1, 1000)) @@ ("kg (kilogram)" :> Rat(1)) @@
    ("lb (pound)" :> Frac(45359237, 100000000)) @@
    ("oz (ounce)" :> Frac(45359237, 1600000000))

\* length units in meters
LENGTH_TO_M ==
    ("mm (millimeter)" :> Frac(1, 1000)) @@ ("cm (centimeter)" :> Frac(1, 100)) @@
    ("m (meter)" :> Rat(1)) @@ ("km (kilometer)" :> Rat(1000)) @@
    ("in (inch)" :> Frac(254, 10000)) @@ ("ft (foot)" :> Frac(3048, 10000)) @@
    ("yd (yard)" :> Frac(9144, 10000)) @@ ("mile" :> Frac(1609344, 1000))

\* volume units in liters
VOLUME_TO_L ==
    ("mL (milliliter)" :> Frac(1, 1000)) @@ ("L (liter)" :> Rat(1)) @@
    ("fl oz (fluid ounce)" :> Frac(295735, 10000000)) @@
    ("gallon" :> Frac(378541, 100000))

\* the degree sign of the labels is written "deg"
TEMP_UNITS == <<"degC", "degF", "K">>

unit_factor(from_factor, to_factor) == RDiv(from_factor, to_factor)

Result(value, factor, ops, formula) ==
    [ok |-> TRUE, value |-> value, factor |-> factor, ops |-> ops, formula |-> formula]

Failed(what) ==
    [ok |-> FALSE, value |-> NoValue, factor |-> NoValue, ops |-> 0, formula |-> what]

\* the lookup without the same-unit branch: always divides the factors
table_convert_always(units_map, val, from_u, to_u) ==
    IF val.num < 0 THEN Failed("Value must be non-negative.")
    ELSE IF from_u \notin DOMAIN units_map \/ to_u \notin DOMAIN units_map
    THEN Failed("KeyError")
    ELSE LET factor == unit_factor(units_map[from_u], units_map[to_u])
         IN Result(RMul(val, factor), factor, 2, "table")

\* the lookup with the factors the wrong way round: to_factor / from_factor
table_convert_inverted(units_map, val, from_u, to_u) ==
    IF val.num < 0 THEN Failed("Value must be non-negative.")
    ELSE IF from_u \notin DOMAIN units_map \/ to_u \notin DOMAIN units_map
    THEN Failed("KeyError")
    ELSE IF from_u = to_u THEN Result(val, Rat(1), 0, "same")
    ELSE LET factor == unit_factor(units_map[to_u], units_map[from_u])
         IN Result(RMul(val, factor), factor, 2, "table")

\* lines 345-356 and 447-458: the range test, the two table lookups, the
\* same-unit branch, and unit_factor with the multiplication otherwise
table_convert(units_map, val, from_u, to_u) ==
    IF val.num < 0 THEN Failed("Value must be non-negative.")
    ELSE IF from_u \notin DOMAIN units_map \/ to_u \notin DOMAIN units_map
    THEN Failed("KeyError")
    ELSE IF from_u = to_u THEN Result(val, Rat(1), 0, "same")
    ELSE LET factor == unit_factor(units_map[from_u], units_map[to_u])
         IN Result(RMul(val, factor), factor, 2, "table")

\* lines 185-192: to Celsius, with the count of operations
ToCelsius(value, from_u) ==
    IF from_u = "degC" THEN [c |-> value, ops |-> 0]
    ELSE IF from_u = "degF"
    THEN [c |-> RDiv(RMul(RSub(value, Rat(32)), Rat(5)), Rat(9)), ops |-> 3]
    ELSE IF from_u = "K" THEN [c |-> RSub(value, Frac(27315, 100)), ops |-> 1]
    ELSE [c |-> value, ops |-> 0]

\* convert_temperature without the same-unit return
convert_temperature_twostep(value, from_u, to_u) ==
    LET n == ToCelsius(value, from_u)
    IN IF to_u = "degC" THEN Result(n.c, NoValue, n.ops, "to degC")
       ELSE IF to_u = "degF"
       THEN Result(RAdd(RDiv(RMul(n.c, Rat(9)), Rat(5)), Rat(32)), NoValue,
                   n.ops + 3, "to degF")
       ELSE IF to_u = "K"
       THEN Result(RAdd(n.c, Frac(27315, 100)), NoValue, n.ops + 1, "to K")
       ELSE Result(value, NoValue, n.ops, "unknown target unit")

\* convert_temperature with 273 for 273.15 on the way to Kelvin
convert_temperature_273(value, from_u, to_u) ==
    IF from_u = to_u THEN Result(value, NoValue, 0, "same units")
    ELSE LET n == ToCelsius(value, from_u)
         IN IF to_u = "degC" THEN Result(n.c, NoValue, n.ops, "to degC")
            ELSE IF to_u = "degF"
            THEN Result(RAdd(RDiv(RMul(n.c, Rat(9)), Rat(5)), Rat(32)), NoValue,
                        n.ops + 3, "to degF")
            ELSE IF to_u = "K"
            THEN Result(RAdd(n.c, Rat(273)), NoValue, n.ops + 1, "to K")
            ELSE Result(value, NoValue, n.ops, "unknown target unit")

\* convert_temperature with the Fahrenheit projection as C * 5/9 + 32
convert_temperature_59(value, from_u, to_u) ==
    IF from_u = to_u THEN Result(value, NoValue, 0, "same units")
    ELSE LET n == ToCelsius(value, from_u)
         IN IF to_u = "degC" THEN Result(n.c, NoValue, n.ops, "to degC")
            ELSE IF to_u = "degF"
            THEN Result(RAdd(RDiv(RMul(n.c, Rat(5)), Rat(9)), Rat(32)), NoValue,
                        n.ops + 3, "to degF")
            ELSE IF to_u = "K"
            THEN Result(RAdd(n.c, Frac(27315, 100)), NoValue, n.ops + 1, "to K")
            ELSE Result(value, NoValue, n.ops, "unknown target unit")

\* lines 174-210
convert_temperature(value, from_u, to_u) ==
    IF from_u = to_u THEN Result(value, NoValue, 0, "same units")
    ELSE LET n == ToCelsius(value, from_u)
         IN IF to_u = "degC" THEN Result(n.c, NoValue, n.ops, "to degC")
            ELSE IF to_u = "degF"
            THEN Result(RAdd(RDiv(RMul(n.c, Rat(9)), Rat(5)), Rat(32)), NoValue,
                        n.ops + 3, "to degF")
            ELSE IF to_u = "K"
            THEN Result(RAdd(n.c, Frac(27315, 100)), NoValue, n.ops + 1, "to K")
            ELSE Result(value, NoValue, n.ops, "unknown target unit")

\* the table of a page
TableOf(op) ==
    IF op = "weight" THEN WEIGHT_TO_KG
    ELSE IF op = "length" THEN LENGTH_TO_M ELSE VOLUME_TO_L

\* the conversion a page displays for a value and two units
Convert(op, value, from_u, to_u) ==
    IF op = "temperature" THEN convert_temperature(value, from_u, to_u)
    ELSE table_convert(TableOf(op), value, from_u, to_u)

Input(value, from_u, to_u) == [value |-> value, from_u |-> from_u, to_u |-> to_u]

\* values typed into the number inputs of the table pages (min_value 0.0)
TableValues == {Rat(0), Rat(1)}

\* further values, for the units whose factor stays within 32-bit integers
\* when scaled by them (all but the ounce)
MoreValues == {Rat(5), Frac(1, 2)}

Plain(op) == DOMAIN TableOf(op) \ {"oz (ounce)"}

\* the example presets
Presets(op) ==
    IF op = "weight" THEN {Input(Rat(5), "kg (kilogram)", "lb (pound)")}
    ELSE IF op = "length" THEN {Input(Rat(2), "mile", "km (kilometer)")}
    ELSE IF op = "volume" THEN {Input(Rat(1), "gallon", "L (liter)")}
    ELSE {Input(Rat(37), "degC", "degF"), Input(Rat(100), "degF", "degC")}

\* values typed into the temperature input (no minimum)
TempValues == {Rat(0 - 40), Rat(0), Rat(100), Frac(27315, 100), Frac(0 - 1, 2)}

Range(seq) == {seq[i] : i \in DOMAIN seq}

Inputs(op) ==
    Presets(op) \cup
    (IF op = "temperature"
     THEN {Input(v, f, t) : v \in TempValues, f \in Range(TEMP_UNITS),
                            t \in Range(TEMP_UNITS)}
     ELSE {Input(v, f, t) : v \in TableValues, f \in DOMAIN TableOf(op),
                            t \in DOMAIN TableOf(op)}
          \cup {Input(v, f, t) : v \in MoreValues, f \in Plain(op), t \in Plain(op)})

Shown(op, i, back, orig) ==
    [op |-> op, value |-> i.value, from_u |-> i.from_u, to_u |-> i.to_u,
     res |-> Convert(op, i.value, i.from_u, i.to_u), back |-> back, orig |-> orig]

Money == <<now, online, cache, made, out>>

\* the Weight page converts
ConvertWeight ==
    /\ \E i \in Inputs("weight") : shown' = Shown("weight", i, FALSE, i.value)
    /\ UNCHANGED <<Money, sess, thr, water, gym>>

\* the Measurement page converts, in either category
ConvertMeasurement ==
    /\ \E op \in {"length", "volume"} :
          \E i \in Inputs(op) : shown' = Shown(op, i, FALSE, i.value)
    /\ UNCHANGED <<Money, sess, thr, water, gym>>

\* the Temperature page converts
ConvertTemperature ==
    /\ \E i \in Inputs("temperature") : shown' = Shown("temperature", i, FALSE, i.value)
    /\ UNCHANGED <<Money, sess, thr, water, gym>>

\* the value displayed is converted back to the unit it came from
ConvertBack ==
    /\ shown.op # "none" /\ ~shown.back /\ shown.res.ok
    /\ shown' = Shown(shown.op, Input(shown.res.value, shown.to_u, shown.from_u),
                      TRUE, shown.value)
    /\ UNCHANGED <<Money, sess, thr, water, gym>>

NextUnits == ConvertWeight \/ ConvertMeasurement \/ ConvertTemperature \/ ConvertBack

SpecUnits == Init /\ [][NextUnits]_vars

\* a first conversion is on display
Direct == shown.op # "none" /\ ~shown.back

\* C14: on every page, converting a value to the unit it is in displays exactly
\* that value: no operation is applied to it, and the table pages report the
\* factor 1.
C14_Identity ==
    (Direct /\ shown.from_u = shown.to_u) =>
        /\ shown.res.ok
        /\ shown.res.value = shown.value
        /\ shown.res.ops = 0
        /\ shown.op # "temperature" => shown.res.factor = Rat(1)

C14_Witness ==
    /\ Direct /\ shown.op = "temperature"
    /\ shown.from_u = "K" /\ shown.to_u = "K"
    /\ shown.value = Frac(27315, 100)
    /\ shown.res.value = Frac(27315, 100)

C14_WitnessTable ==
    /\ Direct /\ shown.op = "weight"
    /\ shown.from_u = "lb (pound)" /\ shown.to_u = "lb (pound)"
    /\ shown.res.value = shown.value /\ shown.value = Frac(1, 2)

\* the first k decimals of rem/den (rem < den) as an integer
RECURSIVE Decimals(_, _, _)
Decimals(rem, den, k) ==
    IF k = 0 THEN 0
    ELSE LET d == (rem * 10) \div den
             r == (rem * 10) % den
             rest == Decimals(r, den, k - 1)
         IN d * (10 ^ (k - 1)) + rest

\* a non-negative fraction in thousandths, rounded down
Thousandths(q) == (q.num \div q.den) * 1000 + Decimals(q.num % q.den, q.den, 3)

\* C15: for distinct units X, Y of one table the value displayed is
\* v * table[X] / table[Y] (value * table[Y] = v * table[X]); 1 gallon is
\* 3.78541 L and 5 kg is 11.023 lb to within 1e-3.
C15_Linear ==
    /\ (Direct /\ shown.op # "temperature" /\ shown.from_u # shown.to_u) =>
          /\ shown.res.ok
          /\ RMul(shown.res.value, TableOf(shown.op)[shown.to_u])
                = RMul(shown.value, TableOf(shown.op)[shown.from_u])
          /\ RMul(shown.res.factor, TableOf(shown.op)[shown.to_u])
                = TableOf(shown.op)[shown.from_u]
    /\ (Direct /\ shown.op = "volume"
        /\ Input(shown.value, shown.from_u, shown.to_u)
              = Input(Rat(1), "gallon", "L (liter)")) =>
          shown.res.value = Frac(378541, 100000)
    /\ (Direct /\ shown.op = "weight"
        /\ Input(shown.value, shown.from_u, shown.to_u)
              = Input(Rat(5), "kg (kilogram)", "lb (pound)")) =>
          Thousandths(shown.res.value) \in {11022, 11023}

C15_Witness ==
    /\ Direct /\ shown.op = "weight"
    /\ Input(shown.value, shown.from_u, shown.to_u)
          = Input(Rat(5), "kg (kilogram)", "lb (pound)")
    /\ shown.res.ok
    /\ Thousandths(shown.res.value) = 11023

\* the Celsius value of a temperature, by the formulas of the claim
Celsius(v, u) ==
    IF u = "degC" THEN v
    ELSE IF u = "degF" THEN Frac((v.num - 32 * v.den) * 5, v.den * 9)
    ELSE Frac(v.num * 100 - 27315 * v.den, v.den * 100)

\* the value of a Celsius temperature in a unit, by the formulas of the claim
Project(c, u) ==
    IF u = "degC" THEN c
    ELSE IF u = "degF" THEN Frac(c.num * 9 + 32 * 5 * c.den, c.den * 5)
    ELSE Frac(c.num * 100 + 27315 * c.den, c.den * 100)

\* C16: for distinct temperature units the value displayed is the projection
\* to the target unit of the Celsius value of the input, negative Kelvin
\* included; 0 degC is 32 degF, 100 degC is 212 degF, 0 K is -273.15 degC.
C16_Temperature ==
    (Direct /\ shown.op = "temperature" /\ shown.from_u # shown.to_u) =>
        /\ shown.res.ok
        /\ shown.res.value = Project(Celsius(shown.value, shown.from_u), shown.to_u)
        /\ (shown.value = Rat(0) /\ shown.from_u = "degC" /\ shown.to_u = "degF")
              => shown.res.value = Rat(32)
        /\ (shown.value = Rat(100) /\ shown.from_u = "degC" /\ shown.to_u = "degF")
              => shown.res.value = Rat(212)
        /\ (shown.value = Rat(0) /\ shown.from_u = "K" /\ shown.to_u = "degC")
              => shown.res.value = Frac(0 - 27315, 100)

\* -40 degF displayed in Kelvin: 233.15 K
C16_Witness ==
    /\ Direct /\ shown.op = "temperature"
    /\ shown.value = Rat(0 - 40) /\ shown.from_u = "degF" /\ shown.to_u = "K"
    /\ shown.res.value = Frac(23315, 100)

\* C17: converting a displayed value back to the unit it came from gives the
\* original value again, on the table pages and on the temperature page.
C17_RoundTrip ==
    (shown.op # "none" /\ shown.back) =>
        /\ shown.res.ok
        /\ shown.res.value = shown.orig

C17_Witness ==
    /\ shown.op = "length" /\ shown.back
    /\ shown.from_u = "km (kilometer)" /\ shown.to_u = "mile"
    /\ shown.orig = Rat(2)
    /\ shown.value = Frac(402336, 125000)
    /\ shown.res.value = Rat(2)

(***************************************************************************)
(* The Measurement page.  One step is one run of the script from the radio *)
(* to the lookup, started by one thing the user does.  `api` tells that    *)
(* m_from and m_to were last written through st.session_state and not by   *)
(* their selectboxes.  Two points of Streamlit differ between builds and   *)
(* are left open in every run: `strict`, a write to the key of a widget    *)
(* already drawn in the run raises StreamlitAPIException (otherwise it is  *)
(* performed), and `onbad`, a selectbox whose key holds a value written    *)
(* through st.session_state that is not among its options raises          *)
(* ValueError (otherwise it falls back to options[index]).                 *)
(***************************************************************************)
LENGTH_UNITS == <<"mm (millimeter)", "cm (centimeter)", "m (meter)", "km (kilometer)",
                  "in (inch)", "ft (foot)", "yd (yard)", "mile">>

VOLUME_UNITS == <<"mL (milliliter)", "L (liter)", "fl oz (fluid ounce)", "gallon">>

\* lines 400-407: units_map and list(units_map.keys()) of a category
units_map_of(category) == IF category = "Length" THEN LENGTH_TO_M ELSE VOLUME_TO_L

KeysOf(category) == IF category = "Length" THEN LENGTH_UNITS ELSE VOLUME_UNITS

\* units.index(label) for a label of the list (0-based in the program)
Index(units, label) == CHOOSE i \in DOMAIN units : units[i] = label

\* lines 419-421 and 429-431: the stored label when it is one of the units,
\* units[fallback] otherwise
DefaultUnit(units, held, fallback) ==
    IF held = "" THEN units[fallback]
    ELSE IF held \notin Range(units) THEN units[fallback] ELSE held

\* a selectbox that hands back whatever its key holds
selectbox_stale(options, index, held, api, onbad) ==
    IF held = "" THEN [ok |-> TRUE, v |-> options[index]]
    ELSE [ok |-> TRUE, v |-> held]

\* st.selectbox(label, options, index, key): the value held under the key
\* when it is an option, options[index] when the key is unset or holds a
\* value of a former widget, and ValueError or options[index] when the key
\* holds a value written through st.session_state that is not an option
selectbox(options, index, held, api, onbad) ==
    IF held = "" THEN [ok |-> TRUE, v |-> options[index]]
    ELSE IF held \in Range(options) THEN [ok |-> TRUE, v |-> held]
    ELSE IF api /\ onbad = "raise" THEN [ok |-> FALSE, v |-> ""]
    ELSE [ok |-> TRUE, v |-> options[index]]

Ended(exc, drawn, category) ==
    [exc |-> exc, drawn |-> drawn, looked |-> FALSE, category |-> category,
     m_from |-> "", m_to |-> "", res |-> NoResult]

\* lines 447-458 reached with the labels m_from and m_to
Looked(category, m_val, m_from, m_to) ==
    LET r == table_convert(units_map_of(category), m_val, m_from, m_to)
    IN [exc |-> IF r.formula = "KeyError" THEN "KeyError" ELSE "",
        drawn |-> TRUE, looked |-> m_val.num >= 0, category |-> category,
        m_from |-> m_from, m_to |-> m_to, res |-> r]

\* the preset of a button: lines 389-392 and 395-398
PresetOf(press) ==
    IF press = "len" THEN [i |-> Input(Rat(2), "mile", "km (kilometer)"), cat |-> "Length"]
    ELSE [i |-> Input(Rat(1), "gallon", "L (liter)"), cat |-> "Volume"]

\* lines 400-458, after the radio and the preset buttons
Widgets(s, category, press, strict, onbad) ==
    LET units == KeysOf(category)
        m_val == IF s.m_val = NoValue THEN Rat(1) ELSE s.m_val
        default_from == DefaultUnit(units, s.m_from, 1)
        wf == selectbox(units, Index(units, default_from), s.m_from, s.api, onbad)
        s1 == [s EXCEPT !.m_val = m_val, !.m_from = wf.v]
        default_to == DefaultUnit(units, s.m_to, 2)
        wt == selectbox(units, Index(units, default_to), s.m_to, s.api, onbad)
        s2 == [s1 EXCEPT !.m_to = wt.v, !.api = FALSE]
        s3 == [s2 EXCEPT !.m_from = s2.m_to, !.m_to = s2.m_from, !.api = TRUE]
    IN IF ~wf.ok THEN [s EXCEPT !.m_val = m_val, !.run = Ended("ValueError", FALSE, category)]
       ELSE IF ~wt.ok THEN [s1 EXCEPT !.run = Ended("ValueError", FALSE, category)]
       ELSE IF press = "swap" /\ strict
       THEN [s2 EXCEPT !.run = Ended("StreamlitAPIException", TRUE, category)]
       ELSE IF press = "swap"
       THEN [s3 EXCEPT !.run = Looked(category, m_val, s3.m_from, s3.m_to)]
       ELSE [s2 EXCEPT !.run = Looked(category, m_val, s2.m_from, s2.m_to)]

\* one run of lines 370-467 on the session state s
Script(s, press, strict, onbad) ==
    LET category == IF s.meas_cat = "" THEN "Length" ELSE s.meas_cat
        s1 == [s EXCEPT !.meas_cat = category]
        p  == PresetOf(press)
        s2 == [s1 EXCEPT !.m_val = p.i.value, !.m_from = p.i.from_u,
                         !.m_to = p.i.to_u, !.api = TRUE]
        s3 == [s2 EXCEPT !.meas_cat = p.cat]
    IN IF press \in {"len", "vol"}
       THEN IF strict
            THEN [s2 EXCEPT !.run = Ended("StreamlitAPIException", FALSE, category)]
            ELSE Widgets(s3, category, press, strict, onbad)
       ELSE Widgets(s1, category, press, strict, onbad)

Builds == {TRUE, FALSE} \X {"raise", "reset"}

Elsewhere == <<now, online, cache, made, out, shown, thr, water, gym>>

\* the page is run again with nothing pressed
OpenMeasurement ==
    /\ \E b \in Builds : sess' = Script(sess, "none", b[1], b[2])
    /\ UNCHANGED Elsewhere

\* the user picks a category on the radio
ChooseCategory ==
    /\ \E c \in {"Length", "Volume"}, b \in Builds :
          sess' = Script([sess EXCEPT !.meas_cat = c], "none", b[1], b[2])
    /\ UNCHANGED Elsewhere

\* the user picks a unit in one of the selectboxes drawn by the last run
ChooseUnit ==
    /\ sess.run.drawn
    /\ \E u \in Range(KeysOf(sess.run.category)), from \in BOOLEAN, b \in Builds :
          sess' = Script(IF from THEN [sess EXCEPT !.m_from = u]
                                 ELSE [sess EXCEPT !.m_to = u], "none", b[1], b[2])
    /\ UNCHANGED Elsewhere

\* the user presses one of the two example buttons
PressPreset ==
    /\ \E press \in {"len", "vol"}, b \in Builds :
          sess' = Script(sess, press, b[1], b[2])
    /\ UNCHANGED Elsewhere

\* the user presses the swap button drawn by the last run
PressSwap ==
    /\ sess.run.drawn
    /\ \E b \in Builds : sess' = Script(sess, "swap", b[1], b[2])
    /\ UNCHANGED Elsewhere

\* the user leaves for another mode: the state of the widgets no longer
\* drawn is dropped, values written through st.session_state stay
LeaveMeasurement ==
    /\ sess # NoSess
    /\ sess' = IF sess.api THEN [sess EXCEPT !.meas_cat = "", !.run = NoRun]
               ELSE NoSess
    /\ UNCHANGED Elsewhere

NextMeas == OpenMeasurement \/ ChooseCategory \/ ChooseUnit \/ PressPreset
            \/ PressSwap \/ LeaveMeasurement

SpecMeas == Init /\ [][NextMeas]_vars

write_result_patched(c, snap, t) ==
    IF c.held
    THEN [held |-> TRUE,
          snap |-> Snapshot(snap.rates, c.snap.source, c.snap.timestamp),
          at |-> t]
    ELSE Entry(snap, t)

\* the store of st.cache_data: the whole entry is replaced
write_result(c, snap, t) == Entry(snap, t)

\* what the GETs of the threads meet
ThreadAnswers ==
    { Ok(GoodRates, EUR, Str("2024-01-01")),
      Ok(MissingV, Missing, Missing),
      Resp("timeout", 0, "none", MissingV, Missing, Missing) }

Sequential == <<online, made, out, now>>

\* thread i calls get_rates(): a hit returns the held snapshot
Call(i) ==
    /\ thr.pc[i] = "idle"
    /\ thr' = IF CacheValid(cache, now)
              THEN [thr EXCEPT !.pc[i] = "done", !.val[i] = cache.snap]
              ELSE [thr EXCEPT !.pc[i] = "miss"]
    /\ UNCHANGED <<cache, Sequential, shown, sess, water, gym>>

\* after a miss thread i takes the free lock of the key and reads the cache
\* again: a snapshot stored meanwhile is returned without a GET
Acquire(i) ==
    /\ thr.pc[i] = "miss" /\ thr.lock = 0
    /\ thr' = IF CacheValid(cache, now)
              THEN [thr EXCEPT !.pc[i] = "done", !.val[i] = cache.snap]
              ELSE [thr EXCEPT !.pc[i] = "compute", !.lock = i]
    /\ UNCHANGED <<cache, Sequential, shown, sess, water, gym>>

\* after a miss thread i goes on to compute without a lock
Proceed(i) ==
    /\ thr.pc[i] = "miss"
    /\ thr' = [thr EXCEPT !.pc[i] = "compute"]
    /\ UNCHANGED <<cache, Sequential, shown, sess, water, gym>>

\* thread i runs the body of get_rates: one GET, then the live or the
\* fallback snapshot
Fetch(i) ==
    /\ thr.pc[i] = "compute"
    /\ \E resp \in ThreadAnswers :
          LET r == get_rates_body(resp, now)
          IN thr' = [thr EXCEPT !.pc[i] = IF r.ok THEN "computed" ELSE "raised",
                                !.val[i] = r.snap, !.got[i] = TRUE,
                                !.gets = thr.gets + 1]
    /\ UNCHANGED <<cache, Sequential, shown, sess, water, gym>>

\* thread i stores its snapshot, frees the lock if it holds it, and returns
Store(i) ==
    /\ thr.pc[i] = "computed"
    /\ cache' = write_result(cache, thr.val[i], now)
    /\ thr' = [thr EXCEPT !.pc[i] = "done",
                          !.lock = IF thr.lock = i THEN 0 ELSE thr.lock]
    /\ UNCHANGED <<Sequential, shown, sess, water, gym>>

NextConc ==
    \E i \in Threads : Call(i) \/ Acquire(i) \/ Proceed(i) \/ Fetch(i) \/ Store(i)

SpecConc == Init /\ [][NextConc]_vars

\* the snapshots a single call of get_rates() can return
WholeSnapshots == { get_rates_body(resp, now).snap : resp \in ThreadAnswers }

Callers == { i \in Threads : thr.pc[i] # "idle" }

\* C18: with several threads inside get_rates() on an empty cache, every call
\* that has returned returned a whole snapshot (the full result of one run of
\* the body), no call raised, the GETs made are no more than the callers, the
\* cache never holds anything but the whole snapshot of one of the calls, and
\* holds one once all calls have returned.
C18_ConcurrentFirstUse ==
    /\ \A i \in Threads : thr.pc[i] # "raised"
    /\ \A i \in Threads : thr.pc[i] = "done" => thr.val[i] \in WholeSnapshots
    /\ thr.gets <= Cardinality(Callers)
    /\ cache.held =>
          \E i \in Threads : thr.got[i] /\ thr.pc[i] = "done" /\ cache.snap = thr.val[i]
    /\ (\A i \in Threads : thr.pc[i] = "done") => cache.held

\* two threads both fetched, one met a live answer and one a timeout, both have
\* returned, and the cache holds the snapshot stored last
C18_Witness ==
    /\ \A i \in Threads : thr.pc[i] = "done"
    /\ thr.gets = 2
    /\ thr.val[1].source = LIVE_SOURCE
    /\ thr.val[2].source = FALLBACK_SOURCE
    /\ cache.held /\ cache.snap = thr.val[2]

(***************************************************************************)
(* The water tracker (intake_wt.py).  The log is the sequence of the rows  *)
(* of st.session_state.water_data; `typed` tells that its date column is   *)
(* datetime64 (a frame built by pd.DataFrame(columns=...) has an object    *)
(* column, on which the .dt accessor raises AttributeError).  Dates are    *)
(* day numbers; a row of water_log.csv is the pair <<date, amount_ml>>.    *)
(***************************************************************************)
\* datetime.now().date() throughout
Today == 10

\* the longest log explored
MaxRows == 4

Row(d, a) == [date |-> d, amount_ml |-> a]

\* DataFrame.to_csv(DATA_FILE, index=False)
to_csv(log) ==
    [exists |-> TRUE, ok |-> TRUE,
     rows |-> [i \in 1 .. Len(log) |-> <<log[i].date, log[i].amount_ml>>]]

\* pd.read_csv(DATA_FILE, parse_dates=["date"]) of a readable file
read_csv(file) == [i \in 1 .. Len(file.rows) |-> Row(file.rows[i][1], file.rows[i][2])]

\* lines 118-127; hdr: whether the date column read from a file without data
\* rows comes out as datetime64
init_state(w, hdr) ==
    IF w.loaded THEN w
    ELSE IF w.file.exists /\ w.file.ok
    THEN [w EXCEPT !.loaded = TRUE, !.log = read_csv(w.file),
                   !.typed = (Len(w.file.rows) > 0) \/ hdr]
    ELSE [w EXCEPT !.loaded = TRUE, !.log = <<>>, !.typed = FALSE]

\* lines 129-131
save_data(w) == [w EXCEPT !.file = to_csv(w.log)]

\* add_intake that writes the file before the row is appended
add_intake_stale(w, amount_ml) ==
    [save_data(w) EXCEPT !.log = Append(w.log, Row(Today, amount_ml)), !.typed = TRUE]

\* lines 133-141: pd.concat with the new row, then save_data()
add_intake(w, amount_ml) ==
    save_data([w EXCEPT !.log = Append(w.log, Row(Today, amount_ml)), !.typed = TRUE])

\* lines 143-147; exc is "AttributeError" when df["date"].dt raises
reset_today(w) ==
    IF ~w.typed THEN [exc |-> "AttributeError", w |-> w]
    ELSE [exc |-> "",
          w |-> save_data([w EXCEPT !.log = SelectSeq(w.log, LAMBDA r : r.date # Today)])]

\* clear_all that leaves the file in place
clear_all_keep(w) == [w EXCEPT !.log = <<>>, !.typed = FALSE]

\* lines 149-152
clear_all(w) == [w EXCEPT !.log = <<>>, !.typed = FALSE, !.file = NoFile]

RECURSIVE SumAmounts(_)
SumAmounts(rows) ==
    IF rows = <<>> THEN 0 ELSE Head(rows).amount_ml + SumAmounts(Tail(rows))

\* get_today_total counting every row
get_today_total_all(w) ==
    IF w.log = <<>> THEN [exc |-> "", v |-> 0]
    ELSE IF ~w.typed THEN [exc |-> "AttributeError", v |-> 0 - 1]
    ELSE [exc |-> "", v |-> SumAmounts(w.log)]

\* lines 154-161
get_today_total(w) ==
    IF w.log = <<>> THEN [exc |-> "", v |-> 0]
    ELSE IF ~w.typed THEN [exc |-> "AttributeError", v |-> 0 - 1]
    ELSE [exc |-> "", v |-> SumAmounts(SelectSeq(w.log, LAMBDA r : r.date = Today))]

Day(d, total) == [date |-> d, total_ml |-> total]

\* get_weekly_data with the window starting at today - 7
get_weekly_data_early(w) ==
    IF w.log = <<>> THEN [i \in 1 .. 7 |-> Day(Today - (7 - i), 0)]
    ELSE LET start == Today - 7
             df == SelectSeq(w.log, LAMBDA r : r.date >= start /\ r.date <= Today)
             grouped == [d \in {df[i].date : i \in 1 .. Len(df)} |->
                            SumAmounts(SelectSeq(df, LAMBDA r : r.date = d))]
         IN [i \in 1 .. 7 |->
                LET d == start + (i - 1)
                IN Day(d, IF d \in DOMAIN grouped THEN grouped[d] ELSE 0)]

\* lines 163-182: the empty branch, else filter to the window, group by day,
\* left-merge onto the seven days and fill the gaps with 0
get_weekly_data(w) ==
    IF w.log = <<>> THEN [i \in 1 .. 7 |-> Day(Today - (7 - i), 0)]
    ELSE LET start == Today - 6
             df == SelectSeq(w.log, LAMBDA r : r.date >= start /\ r.date <= Today)
             grouped == [d \in {df[i].date : i \in 1 .. Len(df)} |->
                            SumAmounts(SelectSeq(df, LAMBDA r : r.date = d))]
         IN [i \in 1 .. 7 |->
                LET d == start + (i - 1)
                IN Day(d, IF d \in DOMAIN grouped THEN grouped[d] ELSE 0)]

\* one run of the script with at most one button pressed: init_state(), the
\* button's handler, then today's total and the weekly table
WaterScript(w0, press, amount_ml, hdr) ==
    LET w1 == init_state(w0, hdr)
        r  == IF press = "reset_today" THEN reset_today(w1)
              ELSE IF press = "clear_all" THEN [exc |-> "", w |-> clear_all(w1)]
              ELSE IF press = "add_intake" THEN [exc |-> "", w |-> add_intake(w1, amount_ml)]
              ELSE [exc |-> "", w |-> w1]
        t  == get_today_total(r.w)
        acc == IF press = "add_intake" THEN w1.acc + amount_ml
               ELSE IF press \in {"reset_today", "clear_all"} THEN 0 ELSE w1.acc
    IN [r.w EXCEPT
          !.acc = acc,
          !.cleared = (press = "clear_all") \/ w1.cleared,
          !.added = IF press = "add_intake" THEN Append(w1.added, Row(Today, amount_ml))
                    ELSE IF press \in {"reset_today", "clear_all"} THEN <<>>
                    ELSE w1.added,
          !.run = [op |-> press, exc |-> IF r.exc # "" THEN r.exc ELSE t.exc,
                   amount |-> amount_ml, before |-> w1.log,
                   total |-> IF r.exc # "" THEN 0 - 1 ELSE t.v,
                   weekly |-> IF r.exc # "" \/ t.exc # "" THEN <<>>
                              ELSE get_weekly_data(r.w)]]

File(rows) == [exists |-> TRUE, ok |-> TRUE, rows |-> rows]

\* water_log.csv as the first session finds it: absent, unreadable, without
\* data rows, or left by earlier days and earlier today
StartFiles ==
    { NoFile,
      [exists |-> TRUE, ok |-> FALSE, rows |-> <<>>],
      File(<<>>),
      File(<< <<Today - 7, 500>>, <<Today - 6, 300>>, <<Today - 1, 250>> >>),
      File(<< <<Today, 100>>, <<Today - 1, 250>>, <<Today, 50>> >>),
      File(<< <<Today - 1, 250>>, <<Today + 1, 400>> >>) }

\* what earlier sessions added today
AddedToday(file) ==
    IF file.exists /\ file.ok
    THEN SumAmounts(SelectSeq(read_csv(file), LAMBDA r : r.date = Today)) ELSE 0

Rest0 ==
    /\ now = 0 /\ online = TRUE /\ cache = NoEntry /\ made = NoResp /\ out = NoOut
    /\ shown = NoUnits /\ sess = NoSess /\ thr = NoThr

InitWater ==
    /\ Rest0
    /\ gym = NoGym
    /\ \E f \in StartFiles : water = [NoWater EXCEPT !.file = f, !.acc = AddedToday(f)]

\* amounts of the number input (50 to 2000)
Amounts == {50, 250, 2000}

NotWater == <<now, online, cache, made, out, shown, sess, thr, gym>>

\* the page is run with no button pressed
OpenWater ==
    /\ \E hdr \in BOOLEAN : water' = WaterScript(water, "none", 0, hdr)
    /\ UNCHANGED NotWater

\* Add Intake is pressed
AddIntake ==
    /\ Len(IF water.loaded THEN water.log ELSE water.file.rows) < MaxRows
    /\ \E a \in Amounts, hdr \in BOOLEAN : water' = WaterScript(water, "add_intake", a, hdr)
    /\ UNCHANGED NotWater

\* Reset Today is pressed
ResetToday ==
    /\ \E hdr \in BOOLEAN : water' = WaterScript(water, "reset_today", 0, hdr)
    /\ UNCHANGED NotWater

\* Clear All is pressed
ClearAll ==
    /\ \E hdr \in BOOLEAN : water' = WaterScript(water, "clear_all", 0, hdr)
    /\ UNCHANGED NotWater

\* the browser session ends: st.session_state is gone, the file stays
NewWaterSession ==
    /\ water.loaded
    /\ water' = [water EXCEPT !.loaded = FALSE, !.log = <<>>, !.typed = FALSE,
                              !.run = NoWaterRun]
    /\ UNCHANGED NotWater

NextWater == OpenWater \/ AddIntake \/ ResetToday \/ ClearAll \/ NewWaterSession

SpecWater == InitWater /\ [][NextWater]_vars

\* what a new session would load from the file as it is
Reload(file) == IF file.exists /\ file.ok THEN read_csv(file) ELSE <<>>

\* C21: a press of Reset Today raises nothing, leaves exactly the rows of the
\* log that are not dated today, in their order, writes that log to
\* water_log.csv, and today's total is 0 afterwards.
C21_ResetToday ==
    water.run.op = "reset_today" =>
        /\ water.run.exc = ""
        /\ water.log = SelectSeq(water.run.before, LAMBDA r : r.date # Today)
        /\ water.file = to_csv(water.log)
        /\ water.run.total = 0

\* the sum of the log rows dated d
TotalOn(log, d) == SumAmounts(SelectSeq(log, LAMBDA r : r.date = d))

\* C22: whenever a run computes the weekly table it has exactly 7 rows, the
\* days today-6 .. today in ascending order, each with the sum of the log
\* rows of that day (0 without any); rows outside the window change nothing.
C22_WeeklyData ==
    /\ (water.run.op # "none" /\ water.run.exc = "") => Len(water.run.weekly) = 7
    /\ water.run.weekly # <<>> =>
          /\ Len(water.run.weekly) = 7
          /\ \A i \in 1 .. 7 :
                /\ water.run.weekly[i].date = Today - 7 + i
                /\ water.run.weekly[i].total_ml = TotalOn(water.log, Today - 7 + i)

\* a log with a row before the window, rows inside it and one just added
C22_Witness ==
    /\ water.run.op = "add_intake"
    /\ Len(water.log) = 4
    /\ water.log[1].date = Today - 7
    /\ water.run.weekly[1] = Day(Today - 6, 300)
    /\ water.run.weekly[6] = Day(Today - 1, 250)
    /\ water.run.weekly[7] = Day(Today, 2000)

\* C23: a press of Clear All leaves the session log empty and no
\* water_log.csv; from then on a new session would load exactly the rows
\* added since, and the first Add Intake after it gives the one-row log
\* (today, a).
C23_ClearAll ==
    /\ water.run.op = "clear_all" =>
          /\ water.run.exc = ""
          /\ water.log = <<>>
          /\ ~water.file.exists
    /\ water.cleared => Reload(water.file) = water.added
    /\ (water.cleared /\ water.run.op = "add_intake" /\ Len(water.added) = 1) =>
          water.log = <<Row(Today, water.run.amount)>>

\* Clear All was pressed, one intake of 250 was added after it and the
\* session ended: the file holds that row alone
C23_Witness ==
    /\ water.cleared /\ ~water.loaded
    /\ water.added = <<Row(Today, 250)>>
    /\ water.file = File(<< <<Today, 250>> >>)

\* C24: today's total is the sum of the amounts added today since the last
\* Reset Today or Clear All, and an Add Intake of a raises it by exactly a.
C24_TodayTotal ==
    /\ water.loaded => get_today_total(water) = [exc |-> "", v |-> water.acc]
    /\ (water.run.op # "none" /\ water.run.exc = "") => water.run.total = water.acc
    /\ water.run.op = "add_intake" =>
          /\ water.run.exc = ""
          /\ water.run.total = TotalOn(water.run.before, Today) + water.run.amount

\* two intakes add up on a log that also holds yesterday's row
C24_Witness ==
    /\ water.run.op = "add_intake"
    /\ water.acc = 2250
    /\ water.run.total = 2250
    /\ water.log = <<Row(Today - 1, 250), Row(Today, 250), Row(Today, 2000)>>

\* C29: at any time the log a new session would load from water_log.csv (the
\* empty log when the file is absent or unreadable) has the rows of the
\* current session's log, in the same order.
C29_Persistence ==
    water.loaded => Reload(water.file) = water.log

\* an intake added to a log loaded from a file with rows of yesterday and of
\* tomorrow
C29_Witness ==
    /\ water.loaded
    /\ water.run.op = "add_intake"
    /\ water.file = File(<< <<Today - 1, 250>>, <<Today + 1, 400>>, <<Today, 50>> >>)
    /\ water.log = <<Row(Today - 1, 250), Row(Today + 1, 400), Row(Today, 50)>>

(***************************************************************************)
(* The gym logger (gym_workout.py and gym_workout_logger.py, which hold    *)
(* the same code).  Dates are day numbers, weights and volumes are in      *)
(* tenths of a kilogram.  A row of gym_workouts.csv is the tuple of the    *)
(* six columns.                                                            *)
(***************************************************************************)
\* the presses of Add Workout explored between two loads of the demo data
MaxAdds == 2

Workout(d, exercise, sets, reps, weight, volume) ==
    [Date |-> d, Exercise |-> exercise, Sets |-> sets, Reps |-> reps,
     Weight |-> weight, Volume |-> volume]

\* DataFrame.to_csv(CSV_PATH, index=False)
workouts_to_csv(log) ==
    [exists |-> TRUE, ok |-> TRUE,
     rows |-> [i \in 1 .. Len(log) |->
                 <<log[i].Date, log[i].Exercise, log[i].Sets, log[i].Reps,
                   log[i].Weight, log[i].Volume>>]]

\* pd.read_csv(CSV_PATH, parse_dates=["Date"])
workouts_read_csv(file) ==
    [i \in 1 .. Len(file.rows) |->
        Workout(file.rows[i][1], file.rows[i][2], file.rows[i][3],
                file.rows[i][4], file.rows[i][5], file.rows[i][6])]

\* init_state of the gym logger
init_workouts(g) ==
    IF g.loaded THEN g
    ELSE IF g.file.exists /\ g.file.ok
    THEN [g EXCEPT !.loaded = TRUE, !.log = workouts_read_csv(g.file)]
    ELSE [g EXCEPT !.loaded = TRUE, !.log = <<>>]

save_to_csv(g) == [g EXCEPT !.file = workouts_to_csv(g.log)]

\* add_workout_entry that does not write the file
add_workout_entry_unsaved(g, entry) == [g EXCEPT !.log = Append(g.log, entry)]

\* add_workout_entry: concat at the end, then save_to_csv()
add_workout_entry(g, entry) == save_to_csv([g EXCEPT !.log = Append(g.log, entry)])

\* the demo rows before their Volume is computed
Demo ==
    << [Date |-> Today - 6, Exercise |-> "Bench Press", Sets |-> 4, Reps |-> 8, Weight |-> 600],
       [Date |-> Today - 4, Exercise |-> "Bench Press", Sets |-> 5, Reps |-> 5, Weight |-> 700],
       [Date |-> Today - 5, Exercise |-> "Squat", Sets |-> 4, Reps |-> 6, Weight |-> 800],
       [Date |-> Today - 2, Exercise |-> "Squat", Sets |-> 5, Reps |-> 5, Weight |-> 1000],
       [Date |-> Today - 1, Exercise |-> "Deadlift", Sets |-> 3, Reps |-> 5, Weight |-> 1100],
       [Date |-> Today, Exercise |-> "Deadlift", Sets |-> 3, Reps |-> 3, Weight |-> 1400] >>

df_demo ==
    [i \in 1 .. Len(Demo) |->
        Workout(Demo[i].Date, Demo[i].Exercise, Demo[i].Sets, Demo[i].Reps,
                Demo[i].Weight, Demo[i].Sets * Demo[i].Reps * Demo[i].Weight)]

\* load_demo_data that adds the demo rows to the rows already logged
load_demo_data_append(g) == save_to_csv([g EXCEPT !.log = g.log \o df_demo])

\* load_demo_data: the session log becomes the demo frame, then save_to_csv()
load_demo_data(g) == save_to_csv([g EXCEPT !.log = df_demo])

Form(exercise, sets, reps, weight, log_date) ==
    [exercise |-> exercise, sets |-> sets, reps |-> reps, weight |-> weight,
     log_date |-> log_date]

\* the test of lines 308-311 of the Add Workout handler
Valid(f) == f.exercise # "" /\ ~(f.sets <= 0 \/ f.reps <= 0 \/ f.weight < 0)

\* lines 313-321: the entry of a form
EntryOf(f) ==
    Workout(f.log_date, f.exercise, f.sets, f.reps, f.weight,
            f.sets * f.reps * f.weight)

\* the Add Workout handler
AddWorkoutHandler(g, f) == IF Valid(f) THEN add_workout_entry(g, EntryOf(f)) ELSE g

Rows(log) == 1 .. Len(log)

RECURSIVE SumOver(_, _, _)
\* the sum of a column over the rows numbered in ix
SumOver(log, ix, col) ==
    IF ix = {} THEN 0
    ELSE LET i == CHOOSE j \in ix : TRUE
         IN log[i][col] + SumOver(log, ix \ {i}, col)

Max(S) == CHOOSE x \in S : \A y \in S : y <= x

Min(S) == CHOOSE x \in S : \A y \in S : x <= y

\* the rows matching the exercise filter and the From/To dates
Mask(df, exercise_filter, start_date, end_date) ==
    { i \in Rows(df) : /\ df[i].Exercise \in exercise_filter
                       /\ df[i].Date >= start_date /\ df[i].Date <= end_date }

\* week_mask = df["Date"].dt.date >= week_start
week_mask(df) == { i \in Rows(df) : df[i].Date >= Today - 6 }

\* the four stat cards over the rows numbered in wk
Stats(df, wk) ==
    IF wk = {} THEN NoStats
    ELSE [volume |-> SumOver(df, wk, "Volume"), sets |-> SumOver(df, wk, "Sets"),
          reps |-> SumOver(df, wk, "Reps"),
          heaviest |-> Max({df[i].Weight : i \in wk})]

\* chart_df: the filtered rows, or every row when the filter matched none
chart_rows(df, filtered) == IF filtered # {} THEN filtered ELSE Rows(df)

\* one run of the script: init_state(), the button's handler, the filters,
\* the table, the stats and the chart
GymScript(g0, press, f, pick, from_min, to_max) ==
    LET g1 == init_workouts(g0)
        g2 == IF press = "demo" THEN load_demo_data(g1)
              ELSE IF press = "add" THEN AddWorkoutHandler(g1, f)
              ELSE g1
        df == g2.log
        exercises_in_data == {df[i].Exercise : i \in Rows(df)}
        exercise_filter == pick \cap exercises_in_data
        dates == {df[i].Date : i \in Rows(df)}
        start_date == IF from_min THEN Min(dates) ELSE Max(dates)
        end_date == IF to_max THEN Max(dates) ELSE Min(dates)
        filtered == Mask(df, exercise_filter, start_date, end_date)
        wk == week_mask(df)
    IN [g2 EXCEPT
          !.adds = IF press = "demo" THEN 0
                   ELSE IF press = "add" /\ Valid(f) THEN g1.adds + 1 ELSE g1.adds,
          !.run = IF df = <<>>
                  THEN [NoGymRun EXCEPT !.op = press, !.before = g1.log,
                                        !.file_before = g1.file, !.form = f,
                                        !.valid = Valid(f)]
                  ELSE [op |-> press, before |-> g1.log, file_before |-> g1.file,
                        form |-> f, valid |-> Valid(f),
                        exercise_filter |-> exercise_filter,
                        start_date |-> start_date, end_date |-> end_date,
                        table |-> filtered, chart |-> chart_rows(df, filtered),
                        total_volume_filtered |-> SumOver(df, filtered, "Volume"),
                        week |-> wk, stats |-> Stats(df, wk)]]

NoForm == Form("", 0, 0, 0, 0)

\* what the form holds when Add Workout is pressed; the last two are values
\* below the minimum of the number inputs, for the test of line 310
Forms ==
    { Form("Bench Press", 3, 8, 600, Today),
      Form("Squat", 1, 1, 0, Today - 7),
      Form("Squat", 5, 5, 1025, Today + 1),
      Form("Custom Exercise", 20, 50, 5000, Today - 6),
      Form("Squat", 0, 8, 600, Today),
      Form("Bench Press", 3, 8, 0 - 25, Today) }

\* selections of the exercise multiselect
Picks == { {"Bench Press", "Squat", "Deadlift", "Custom Exercise"}, {"Squat"},
           {"Bench Press", "Deadlift"}, {} }

InitGym == Rest0 /\ water = NoWater /\ gym = NoGym

NotGym == <<now, online, cache, made, out, shown, sess, thr, water>>

\* the page is run with the filters as the user left them
OpenGym ==
    /\ \E pick \in Picks, a \in BOOLEAN, b \in BOOLEAN :
          gym' = GymScript(gym, "none", NoForm, pick, a, b)
    /\ UNCHANGED NotGym

\* Add Workout is pressed
AddWorkout ==
    /\ gym.adds < MaxAdds
    /\ \E f \in Forms, pick \in Picks, a \in BOOLEAN, b \in BOOLEAN :
          gym' = GymScript(gym, "add", f, pick, a, b)
    /\ UNCHANGED NotGym

\* Load Demo Data is pressed
LoadDemoData ==
    /\ \E pick \in Picks, a \in BOOLEAN, b \in BOOLEAN :
          gym' = GymScript(gym, "demo", NoForm, pick, a, b)
    /\ UNCHANGED NotGym

\* the browser session ends: st.session_state is gone, the file stays
NewGymSession ==
    /\ gym.loaded
    /\ gym' = [gym EXCEPT !.loaded = FALSE, !.log = <<>>, !.run = NoGymRun]
    /\ UNCHANGED NotGym

NextGym == OpenGym \/ AddWorkout \/ LoadDemoData \/ NewGymSession

SpecGym == InitGym /\ [][NextGym]_vars

\* C25: a press of Add Workout with a valid form leaves the log it found with
\* the one row of the form appended at its end and gym_workouts.csv holding
\* that whole log; a press with sets <= 0, reps <= 0 or weight < 0 changes
\* neither the log nor the file.
C25_AddEntry ==
    gym.run.op = "add" =>
        IF gym.run.valid
        THEN /\ gym.log = Append(gym.run.before, EntryOf(gym.run.form))
             /\ gym.file = workouts_to_csv(gym.log)
        ELSE /\ gym.log = gym.run.before
             /\ gym.file = gym.run.file_before

\* a row added after the six demo rows
C25_Witness ==
    /\ gym.run.op = "add" /\ gym.run.valid
    /\ Len(gym.run.before) = 6
    /\ Len(gym.log) = 7
    /\ gym.log[7] = Workout(Today + 1, "Squat", 5, 5, 1025, 25625)
    /\ Len(gym.file.rows) = 7

\* a press refused by the test on sets, on a log of one row
C25_WitnessRefused ==
    /\ gym.run.op = "add" /\ ~gym.run.valid
    /\ gym.run.form.sets = 0
    /\ Len(gym.log) = 1 /\ Len(gym.file.rows) = 1

\* the six demo rows as the claim lists them
SixDemoRows ==
    << Workout(Today - 6, "Bench Press", 4, 8, 600, 19200),
       Workout(Today - 4, "Bench Press", 5, 5, 700, 17500),
       Workout(Today - 5, "Squat", 4, 6, 800, 19200),
       Workout(Today - 2, "Squat", 5, 5, 1000, 25000),
       Workout(Today - 1, "Deadlift", 3, 5, 1100, 16500),
       Workout(Today, "Deadlift", 3, 3, 1400, 12600) >>

\* C26: from an empty log, after any presses of Add Workout and Load Demo
\* Data every row has Volume = Sets * Reps * Weight with Sets >= 1, Reps >= 1
\* and Weight >= 0, and a press of Load Demo Data leaves exactly the six demo
\* rows whatever was logged before.
C26_Volume ==
    /\ \A i \in Rows(gym.log) :
          /\ gym.log[i].Volume = gym.log[i].Sets * gym.log[i].Reps * gym.log[i].Weight
          /\ gym.log[i].Sets >= 1 /\ gym.log[i].Reps >= 1 /\ gym.log[i].Weight >= 0
    /\ gym.run.op = "demo" =>
          /\ gym.log = SixDemoRows
          /\ gym.file = workouts_to_csv(SixDemoRows)

\* the demo data loaded over a log of two rows
C26_Witness ==
    /\ gym.run.op = "demo"
    /\ Len(gym.run.before) = 2
    /\ gym.log = SixDemoRows

\* the rows dated in the 7 days today-6 .. today
LastSevenDays(df) == { i \in Rows(df) : df[i].Date >= Today - 6 /\ df[i].Date <= Today }

\* C27: the four 'Last 7 Days' stats are computed over exactly the rows dated
\* from today-6 to today; earlier and later rows contribute to none of them.
C27_WeeklyStats ==
    (gym.run.op # "none" /\ gym.log # <<>>) =>
        /\ gym.run.week = LastSevenDays(gym.log)
        /\ gym.run.stats = Stats(gym.log, LastSevenDays(gym.log))

\* C28: the rows drawn in the Weekly Volume Trend chart are exactly the rows
\* matching the exercise filter and the From/To dates, the rows of the table
\* and of the filtered total, also when no row matches.
C28_ChartFiltered ==
    (gym.run.op # "none" /\ gym.log # <<>>) =>
        /\ gym.run.table = Mask(gym.log, gym.run.exercise_filter,
                                gym.run.start_date, gym.run.end_date)
        /\ gym.run.total_volume_filtered = SumOver(gym.log, gym.run.table, "Volume")
        /\ gym.run.chart = gym.run.table

====
